---- MODULE Spec2Model ----
(***************************************************************************)
(* Model of the nuxt-sanctum runtime composables: the Session Client       *)
(* (useSanctum: refreshCsrfToken, check, login, logout) and the Request    *)
(* Wrapper (useSanctumFetch), sharing csrfToken, authenticated and user.   *)
(*                                                                         *)
(* JavaScript runs one handler at a time and suspends only at a network    *)
(* await, so every action below is either the start of a call (up to its   *)
(* first request) or the arrival of one response together with everything  *)
(* the code does until its next request or its return.                     *)
(*                                                                         *)
(* History variables serve the properties: fetched, setToken, and last,    *)
(* the record of the step just taken, which Forget drops before the next   *)
(* step; a call in flight also remembers whether its check request is      *)
(* stale. Spec follows the calls through their interleavings; SpecSeq      *)
(* makes them one at a time over a wider range of arguments.               *)
(***************************************************************************)
EXTENDS Integers, Sequences, FiniteSets, Bags, TLC

VARIABLES
    csrfToken,      \* useState "sanctum.csrfToken"
    authenticated,  \* useState "sanctum.authenticated": "null", "true", "false"
    user,           \* useState "sanctum.user"
    cookie,         \* useCookie("XSRF-TOKEN").value
    process,        \* [server |-> BOOLEAN]: the execution context
    config,         \* useRuntimeConfig().public.sanctum
    calls,          \* the bag of calls in flight
    fetched,        \* history: body of the most recent successful check response
    setToken,       \* history: XSRF-TOKEN of the most recent Set-Cookie received
    last            \* history: what the last step did

vars == <<csrfToken, authenticated, user, cookie, process, config, calls, fetched, setToken,
          last>>

----------------------------------------------------------------------------
(* Bounds *)

MaxInFlight == 2

----------------------------------------------------------------------------
(* Values *)

Undefined == "undefined"
Null == "null"
NoNav == "no-navigation"
NoHeader == "no-header"
Unauthorized == 401

Tokens == {"t1", "t2"}
Bodies == {"alice", "bob"}
Statuses == {200, 401, 500}
RedirectArgs == {Undefined, "/home"}
BaseURL == "https://api"

\* A request that fails in transport: there is no response, and no hook runs.
NoResponse == [status |-> 0, setCookie |-> Undefined, body |-> Null]

Received(r) == r # NoResponse

\* What a request can come back with: a response with a status, possibly a
\* Set-Cookie for XSRF-TOKEN, and a body; or no response at all.
Responses ==
    [status : Statuses, setCookie : {Undefined} \cup Tokens, body : {Null}]
        \cup {NoResponse}

CheckResponses ==
    [status : {200}, setCookie : {Undefined} \cup Tokens, body : Bodies]
        \cup {r \in Responses : r.status # 200}

\* JavaScript truthiness of an optional string.
Truthy(x) == x \notin {Undefined, Null, ""}

\* a ?? b
Coalesce(a, b) == IF a \in {Undefined, Null} THEN b ELSE a

\* String.prototype.endsWith, on strings held as sequences of pieces.
EndsWith(s, suffix) ==
    /\ Len(s) >= Len(suffix)
    /\ SubSeq(s, Len(s) - Len(suffix) + 1, Len(s)) = suffix

\* The request ofetch hands to fetch and to its hooks: the url after the
\* base URL.
Resolve(url) == <<BaseURL>> \o url

\* ofetch treats 4xx and 5xx as errors; no response at all is an error too.
Ok(r) == r.status >= 200 /\ r.status < 300

\* What a step records: the call it belongs to, the request it answers (and
\* the response-error hook in effect for it, and whether the session was ended
\* while it was in flight) with the response's status,
\* XSRF-TOKEN Set-Cookie and body, what the call returned (if it ended), the
\* navigation it made, and the request it went on to issue with the
\* X-XSRF-TOKEN header attached to it.
Nothing == [op |-> "none", redirectTo |-> Undefined, request |-> <<>>, hook |-> Undefined,
            stale |-> FALSE, status |-> 0, setCookie |-> Undefined, body |-> Null, ret |-> "none",
            nav |-> NoNav, sent |-> <<>>, xsrf |-> NoHeader]

Endpoints == [csrf |-> <<"/sanctum/csrf-cookie">>, check |-> <<"/user">>,
              login |-> <<"/login">>, logout |-> <<"/logout">>]

\* The module's configuration, with the redirects either both configured or
\* both left out.
Configs ==
    {[check |-> [endpoint |-> Endpoints.check],
      csrf |-> [endpoint |-> Endpoints.csrf],
      login |-> [endpoint |-> Endpoints.login, redirectsTo |-> r[1]],
      logout |-> [endpoint |-> Endpoints.logout, redirectsTo |-> r[2]]] :
        r \in {<<Undefined, Undefined>>, <<"/dashboard", "/login">>}}

\* The urls the application asks the Request Wrapper for.
Urls == {<<"/user">>, <<"/user", "?page=1">>, <<"/posts">>, <<"/team", "/user">>}

\* The options a caller passes to the Request Wrapper: with or without a
\* response-error hook of its own.
Options == [onResponseError : {Undefined, "caller"}]

\* A wider range of arguments, for the calls made one at a time: an empty
\* redirect target, and options with other keys and with headers.
AnyRedirectArgs == RedirectArgs \cup {""}

CallerHeaders ==
    UNION {[names -> {"caller"}] : names \in SUBSET {"Authorization", "X-XSRF-TOKEN"}}

CallerOptions ==
    LET plain == [credentials : {Undefined, "omit"}, method : {Undefined, "POST"},
                  onResponseError : {Undefined, Null, "caller"}]
    IN  plain \cup {[k \in DOMAIN o \cup {"headers"} |-> IF k = "headers" THEN h ELSE o[k]] :
                        o \in plain, h \in CallerHeaders}

----------------------------------------------------------------------------
(* The hooks and helpers of the two composables *)

\* The XSRF-TOKEN cookie once the response has been applied: the browser
\* stores a Set-Cookie before any hook runs; on the server useCookie reads
\* the inbound request's cookie, which no response changes.
CookieAfter(r) ==
    IF ~process.server /\ r.setCookie # Undefined THEN r.setCookie ELSE cookie

\* sanctumFetch's onResponse: the new csrfToken.
onResponse(r) ==
    IF process.server THEN r.setCookie ELSE CookieAfter(r)

\* useSanctumFetch's default onResponse: the new csrfToken.
defaultOnResponse(r) ==
    IF process.server THEN r.setCookie ELSE CookieAfter(r)

\* navigateTo(to): an empty target goes to "/".
navigateTo(to) == IF Truthy(to) THEN to ELSE "/"

\* An interceptor that takes every error status for the end of the session.
onResponseErrorAnyStatus(request, r) ==
    IF ~EndsWith(request, config.check.endpoint)
    THEN [authenticated |-> "false", user |-> Null,
          nav |-> navigateTo(config.logout.redirectsTo)]
    ELSE [authenticated |-> authenticated, user |-> user, nav |-> NoNav]

\* useSanctumFetch's default onResponseError.
onResponseError(request, r) ==
    IF r.status = Unauthorized /\ ~EndsWith(request, config.check.endpoint)
    THEN [authenticated |-> "false", user |-> Null,
          nav |-> navigateTo(config.logout.redirectsTo)]
    ELSE [authenticated |-> authenticated, user |-> user, nav |-> NoNav]

\* The option keys whose values are plain objects.
ObjectKeys == {"headers"}

\* The keys of options that carry a value: undefined and null count as absent.
Supplied(options) ==
    {k \in DOMAIN options : k \in ObjectKeys \/ options[k] \notin {Undefined, Null}}

\* A merge that takes the caller's value of a key whole, as a spread would.
spread(options, defaults) ==
    [k \in Supplied(options) \cup DOMAIN defaults |->
        IF k \in Supplied(options) THEN options[k] ELSE defaults[k]]

\* defu(options, defaults): the caller's value unless it is undefined or null,
\* plain objects on both sides being merged key by key in the same way.
RECURSIVE defu(_, _)
defu(options, defaults) ==
    [k \in Supplied(options) \cup DOMAIN defaults |->
        IF k \notin Supplied(options) THEN defaults[k]
        ELSE IF k \in ObjectKeys /\ k \in DOMAIN defaults
             THEN defu(options[k], defaults[k])
             ELSE options[k]]

\* The headers among useSanctumFetch's defaults: the inbound request's cookie
\* on the server, and X-XSRF-TOKEN when the shared token is truthy.
defaultHeaders ==
    LET names == (IF process.server /\ cookie # Undefined THEN {"cookie"} ELSE {})
                    \cup (IF Truthy(csrfToken) THEN {"X-XSRF-TOKEN"} ELSE {})
    IN  [h \in names |-> IF h = "cookie" THEN cookie ELSE csrfToken]

\* useSanctumFetch's defaults (all but the key).
defaults ==
    [baseURL |-> BaseURL, mode |-> "cors", redirect |-> "manual", credentials |-> "include",
     headers |-> defaultHeaders, onResponse |-> "default", onResponseError |-> "default"]

\* The X-XSRF-TOKEN header a request goes out with under the options params.
XsrfHeader(params) ==
    IF "X-XSRF-TOKEN" \in DOMAIN params.headers
    THEN params.headers["X-XSRF-TOKEN"] ELSE NoHeader

\* The X-XSRF-TOKEN header of a Session Client request (check, the login POST,
\* the logout POST) issued while the shared token is token.
sessionHeader(token) == token

\* A sanctumFetch request has come back: the cookie and the csrfToken after
\* the onResponse hook (which runs for every response, error statuses too).
sanctumFetch(r) ==
    [cookie |-> CookieAfter(r),
     csrfToken |-> IF Received(r) THEN onResponse(r) ELSE csrfToken]

\* A refreshCsrfToken that does not read the cookie again.
refreshKeepsToken(r) == csrfToken

\* refreshCsrfToken, once its request has come back successfully.
refreshCsrfToken(r) == CookieAfter(r)

\* Variants of check with a slip in it: one that sets the flag without storing
\* the body, one whose catch leaves the flag alone, one that sets the flag
\* whatever came back.
checkKeepsUser(r) ==
    IF Ok(r)
    THEN [user |-> user, authenticated |-> "true", ret |-> "true"]
    ELSE [user |-> user, authenticated |-> "false", ret |-> "false"]

checkCatchKeepsFlag(r) ==
    IF Ok(r)
    THEN [user |-> r.body, authenticated |-> "true", ret |-> "true"]
    ELSE [user |-> user, authenticated |-> authenticated, ret |-> "false"]

checkAlwaysAuthenticated(r) ==
    IF Ok(r)
    THEN [user |-> r.body, authenticated |-> "true", ret |-> "true"]
    ELSE [user |-> user, authenticated |-> "true", ret |-> "true"]

\* check, once its request has come back: what it stores and returns.
check(r) ==
    IF Ok(r)
    THEN [user |-> r.body, authenticated |-> "true", ret |-> "true"]
    ELSE [user |-> user, authenticated |-> "false", ret |-> "false"]

\* login's redirect after check: the target pushed, or NoNav.
loginRedirect(redirectTo) ==
    IF Truthy(redirectTo) \/ Truthy(config.login.redirectsTo)
    THEN Coalesce(redirectTo, config.login.redirectsTo)
    ELSE NoNav

\* A catch block of login that forgets the flag.
loginCatchKeepsFlag == [authenticated |-> authenticated, ret |-> "false"]

\* login's catch block: what it sets and returns.
loginCatch == [authenticated |-> "false", ret |-> "false"]

\* A catch block of logout that ends the session all the same.
logoutCatchClearsFlag == [authenticated |-> "false", ret |-> "false"]

\* logout's catch block: what it sets (nothing) and returns.
logoutCatch == [authenticated |-> authenticated, ret |-> "false"]

\* logout's redirect: the target pushed, or NoNav.
logoutRedirect(redirectTo) ==
    IF Truthy(Coalesce(redirectTo, config.logout.redirectsTo))
    THEN config.logout.redirectsTo
    ELSE NoNav

\* useRouter().push(to): pushing no location at all is an error in the router,
\* raised either synchronously (and then caught by the caller's try) or in the
\* promise nobody awaits.
PushOutcomes(to) == IF to = Undefined THEN {"pushed", "throws"} ELSE {"pushed"}

----------------------------------------------------------------------------
(* The state after construction *)

\* Every combination of context, cookie and configuration.
InitSeq ==
    /\ csrfToken = Undefined
    /\ authenticated = Null
    /\ user = Null
    /\ cookie \in {Undefined, "t1"}
    /\ process \in [server : BOOLEAN]
    /\ config \in Configs
    /\ calls = EmptyBag
    /\ fetched = Null
    /\ setToken = Undefined
    /\ last = Nothing

\* The combinations followed through the interleavings: on the server, the
\* configuration with the redirect targets.
Init ==
    /\ InitSeq
    /\ process.server => config.login.redirectsTo # Undefined

Call(op, pc, redirectTo, request, hook) ==
    [op |-> op, pc |-> pc, redirectTo |-> redirectTo, request |-> request, hook |-> hook,
     stale |-> FALSE]

\* The record of the last step has been dropped: the next step may be taken.
Quiet == last = Nothing

\* The application may start a call while fewer than MaxInFlight are in flight.
CanStart == Quiet /\ BagCardinality(calls) < MaxInFlight

\* The call c has started and run up to its first request.
Started(c) == calls (+) SetToBag({c})

\* The record of the step that starts c, its first request carrying xsrf.
Issued(c, xsrf) == [Nothing EXCEPT !.op = c.op, !.sent = c.request, !.xsrf = xsrf]

shared == <<csrfToken, authenticated, user, cookie, process, config, fetched, setToken>>

InFlight == BagToSet(calls)

At(c, op, pc) == c.op = op /\ c.pc = pc

\* The record of a step of the call c that answers c's request with r.
Answered(c, r) ==
    [Nothing EXCEPT !.op = c.op, !.redirectTo = c.redirectTo, !.request = c.request,
                    !.hook = c.hook, !.stale = c.stale, !.status = r.status, !.setCookie = r.setCookie,
                    !.body = r.body]

\* The call c returns (or throws).
Ended(c) == calls (-) SetToBag({c})

\* History kept with the requests in flight. A check request is stale from the
\* moment logout succeeds or a 401 is intercepted while it is in flight, until
\* a check request succeeds.
Marked(B, stale) ==
    LET Mark(c) == IF c.pc = "check" THEN [c EXCEPT !.stale = stale] ELSE c
    IN  BagOfAll(Mark, B)

\* The XSRF-TOKEN most recently set by a response, r being the latest.
SetBy(r) == IF Received(r) /\ r.setCookie # Undefined THEN r.setCookie ELSE setToken

\* The call c goes on to its next request.
Continued(c, pc, request) ==
    (calls (-) SetToBag({c})) (+) SetToBag({[c EXCEPT !.pc = pc, !.request = request]})

----------------------------------------------------------------------------
(* check *)

CallCheck ==
    LET c == Call("check", "check", Undefined, Resolve(config.check.endpoint), Undefined)
    IN  /\ CanStart
        /\ calls' = Started(c)
        /\ last' = Issued(c, sessionHeader(csrfToken))
        /\ UNCHANGED shared

CheckResponse ==
    \E c \in InFlight :
        /\ Quiet
        /\ At(c, "check", "check")
        /\ \E r \in CheckResponses :
            LET f == sanctumFetch(r)
                k == check(r)
            IN  /\ cookie' = f.cookie
                /\ csrfToken' = f.csrfToken
                /\ user' = k.user
                /\ authenticated' = k.authenticated
                /\ fetched' = IF Ok(r) THEN r.body ELSE fetched
                /\ setToken' = SetBy(r)
                /\ calls' = IF Ok(r) THEN Marked(Ended(c), FALSE) ELSE Ended(c)
                /\ last' = [Answered(c, r) EXCEPT !.ret = k.ret]
        /\ UNCHANGED <<process, config>>

----------------------------------------------------------------------------
(* refreshCsrfToken *)

CallRefreshCsrfToken ==
    LET c == Call("refreshCsrfToken", "csrf", Undefined, Resolve(config.csrf.endpoint),
                  Undefined)
    IN  /\ CanStart
        /\ calls' = Started(c)
        /\ last' = Issued(c, NoHeader)
        /\ UNCHANGED shared

RefreshCsrfTokenResponse ==
    \E c \in InFlight :
        /\ Quiet
        /\ At(c, "refreshCsrfToken", "csrf")
        /\ \E r \in Responses :
            LET f == sanctumFetch(r)
            IN  /\ cookie' = f.cookie
                /\ setToken' = SetBy(r)
                /\ csrfToken' = IF Ok(r) THEN refreshCsrfToken(r) ELSE f.csrfToken
                /\ calls' = Ended(c)
                /\ last' = [Answered(c, r) EXCEPT !.ret = IF Ok(r) THEN refreshCsrfToken(r)
                                                          ELSE "throws"]
        /\ UNCHANGED <<authenticated, user, process, config, fetched>>

----------------------------------------------------------------------------
(* login *)

Login(Args) ==
    \E redirectTo \in Args :
        LET c == Call("login", "csrf", redirectTo, Resolve(config.csrf.endpoint), Undefined)
        IN  /\ CanStart
            /\ calls' = Started(c)
            /\ last' = Issued(c, NoHeader)
            /\ UNCHANGED shared

CallLogin == Login(RedirectArgs)

\* The CSRF endpoint has answered: refreshCsrfToken ends, and login either
\* posts the credentials or, the await being outside its try, rejects.
LoginCsrfResponse ==
    \E c \in InFlight :
        /\ Quiet
        /\ At(c, "login", "csrf")
        /\ \E r \in Responses :
            LET f == sanctumFetch(r)
            IN  /\ cookie' = f.cookie
                /\ setToken' = SetBy(r)
                /\ IF Ok(r)
                   THEN /\ csrfToken' = refreshCsrfToken(r)
                        /\ calls' = Continued(c, "post", Resolve(config.login.endpoint))
                        /\ last' = [Answered(c, r) EXCEPT
                                        !.sent = Resolve(config.login.endpoint),
                                        !.xsrf = sessionHeader(refreshCsrfToken(r))]
                   ELSE /\ csrfToken' = f.csrfToken
                        /\ calls' = Ended(c)
                        /\ last' = [Answered(c, r) EXCEPT !.ret = "throws"]
        /\ UNCHANGED <<authenticated, user, process, config, fetched>>

\* The login POST has answered: on success login goes on to check.
LoginPostResponse ==
    \E c \in InFlight :
        /\ Quiet
        /\ At(c, "login", "post")
        /\ \E r \in Responses :
            LET f == sanctumFetch(r)
            IN  /\ cookie' = f.cookie
                /\ setToken' = SetBy(r)
                /\ csrfToken' = f.csrfToken
                /\ IF Ok(r)
                   THEN /\ authenticated' = authenticated
                        /\ calls' = Continued(c, "check", Resolve(config.check.endpoint))
                        /\ last' = [Answered(c, r) EXCEPT
                                        !.sent = Resolve(config.check.endpoint),
                                        !.xsrf = sessionHeader(f.csrfToken)]
                   ELSE /\ authenticated' = loginCatch.authenticated
                        /\ calls' = Ended(c)
                        /\ last' = [Answered(c, r) EXCEPT !.ret = loginCatch.ret]
        /\ UNCHANGED <<user, process, config, fetched>>

\* The check inside login has answered: check ends, and login redirects and
\* returns true whatever check returned.
LoginCheckResponse ==
    \E c \in InFlight :
        /\ Quiet
        /\ At(c, "login", "check")
        /\ \E r \in CheckResponses :
            LET f == sanctumFetch(r)
                k == check(r)
            IN  /\ cookie' = f.cookie
                /\ csrfToken' = f.csrfToken
                /\ user' = k.user
                /\ authenticated' = k.authenticated
                /\ fetched' = IF Ok(r) THEN r.body ELSE fetched
                /\ setToken' = SetBy(r)
                /\ calls' = IF Ok(r) THEN Marked(Ended(c), FALSE) ELSE Ended(c)
                /\ last' = [Answered(c, r) EXCEPT !.ret = "true",
                                                  !.nav = loginRedirect(c.redirectTo)]
        /\ UNCHANGED <<process, config>>

----------------------------------------------------------------------------
(* logout *)

Logout(Args) ==
    \E redirectTo \in Args :
        LET c == Call("logout", "post", redirectTo, Resolve(config.logout.endpoint), Undefined)
        IN  /\ CanStart
            /\ calls' = Started(c)
            /\ last' = Issued(c, sessionHeader(csrfToken))
            /\ UNCHANGED shared

CallLogout == Logout(RedirectArgs)

LogoutResponse ==
    \E c \in InFlight :
        /\ Quiet
        /\ At(c, "logout", "post")
        /\ \E r \in Responses :
            LET f == sanctumFetch(r)
                to == logoutRedirect(c.redirectTo)
            IN  /\ cookie' = f.cookie
                /\ setToken' = SetBy(r)
                /\ csrfToken' = f.csrfToken
                /\ calls' = IF Ok(r) THEN Marked(Ended(c), TRUE) ELSE Ended(c)
                /\ IF Ok(r)
                   THEN /\ authenticated' = "false"
                        /\ \E o \in (IF to = NoNav THEN {"pushed"} ELSE PushOutcomes(to)) :
                            last' = [Answered(c, r) EXCEPT
                                        !.ret = IF o = "throws" THEN logoutCatch.ret ELSE "true",
                                        !.nav = IF o = "throws" THEN NoNav ELSE to]
                   ELSE /\ authenticated' = logoutCatch.authenticated
                        /\ last' = [Answered(c, r) EXCEPT !.ret = logoutCatch.ret]
        /\ UNCHANGED <<user, process, config, fetched>>

----------------------------------------------------------------------------
(* useSanctumFetch *)

UseSanctumFetch(Opts) ==
    \E url \in Urls, options \in Opts :
        LET params == defu(options, defaults)
            c == Call("useSanctumFetch", "fetch", Undefined, Resolve(url),
                      params.onResponseError)
        IN  /\ CanStart
            /\ calls' = Started(c)
            /\ last' = Issued(c, XsrfHeader(params))
                            @@ [options |-> options, params |-> params]
            /\ UNCHANGED shared

CallUseSanctumFetch == UseSanctumFetch(Options)

UseSanctumFetchResponse ==
    \E c \in InFlight :
        /\ Quiet
        /\ At(c, "useSanctumFetch", "fetch")
        /\ \E r \in Responses :
            LET e == IF Received(r) /\ ~Ok(r) /\ c.hook = "default"
                     THEN onResponseError(c.request, r)
                     ELSE [authenticated |-> authenticated, user |-> user, nav |-> NoNav]
            IN  /\ cookie' = CookieAfter(r)
                /\ setToken' = SetBy(r)
                /\ csrfToken' = IF Received(r) THEN defaultOnResponse(r) ELSE csrfToken
                /\ authenticated' = e.authenticated
                /\ user' = e.user
                /\ calls' = IF e.nav # NoNav THEN Marked(Ended(c), TRUE) ELSE Ended(c)
                /\ last' = [Answered(c, r) EXCEPT !.ret = IF Ok(r) THEN "data" ELSE "error",
                                                  !.nav = e.nav]
        /\ UNCHANGED <<process, config, fetched>>

----------------------------------------------------------------------------
(* History *)

\* The record of the last step is dropped; nothing of the program changes.
Forget ==
    /\ ~Quiet
    /\ last' = Nothing
    /\ UNCHANGED <<shared, calls>>

----------------------------------------------------------------------------

Next ==
    \/ CallCheck
    \/ CheckResponse
    \/ CallRefreshCsrfToken
    \/ RefreshCsrfTokenResponse
    \/ CallLogin
    \/ LoginCsrfResponse
    \/ LoginPostResponse
    \/ LoginCheckResponse
    \/ CallLogout
    \/ LogoutResponse
    \/ CallUseSanctumFetch
    \/ UseSanctumFetchResponse
    \/ Forget

Spec == Init /\ [][Next]_vars

----------------------------------------------------------------------------
(* One call at a time, over the wider range of arguments *)

Alone == calls = EmptyBag

SeqCheck == Alone /\ CallCheck

SeqRefreshCsrfToken == Alone /\ CallRefreshCsrfToken

SeqLogin == Alone /\ Login(AnyRedirectArgs)

SeqLogout == Alone /\ Logout(AnyRedirectArgs)

SeqUseSanctumFetch == Alone /\ UseSanctumFetch(CallerOptions)

NextSeq ==
    \/ SeqCheck
    \/ CheckResponse
    \/ SeqRefreshCsrfToken
    \/ RefreshCsrfTokenResponse
    \/ SeqLogin
    \/ LoginCsrfResponse
    \/ LoginPostResponse
    \/ LoginCheckResponse
    \/ SeqLogout
    \/ LogoutResponse
    \/ SeqUseSanctumFetch
    \/ UseSanctumFetchResponse
    \/ Forget

SpecSeq == InitSeq /\ [][NextSeq]_vars

----------------------------------------------------------------------------
(* Vocabulary of the properties *)

\* The last step answered the request of a call of op to endpoint.
AnsweredTo(op, endpoint) == last.op = op /\ last.request = Resolve(endpoint)

LastOk == last.status >= 200 /\ last.status < 300

\* The last step was the end of a call of op.
Returned(op) == last.op = op /\ last.ret # "none"

\* The last step sent a request other than refreshCsrfToken's own.
SentWithToken == last.sent # <<>> /\ last.sent # Resolve(config.csrf.endpoint)

\* The last step answered the CSRF request of refreshCsrfToken, called on its
\* own or by login.
AnsweredRefresh ==
    /\ last.op \in {"refreshCsrfToken", "login"}
    /\ last.request = Resolve(config.csrf.endpoint)

\* The last step answered a request with a response.
AnsweredByResponse == last.request # <<>> /\ last.status # 0

----------------------------------------------------------------------------
(* C1 *)

\* C1: when login's CSRF refresh, POST and check request have all succeeded,
\* then as login returns authenticated is true and user is the body the check
\* endpoint answered with.
C1_LoginSuccess ==
    (AnsweredTo("login", config.check.endpoint) /\ LastOk)
        => /\ authenticated = "true"
           /\ user = last.body

C1_Witness ==
    /\ AnsweredTo("login", config.check.endpoint) /\ LastOk
    /\ last.ret = "true"
    /\ authenticated = "true"
    /\ user = last.body
    /\ user \in Bodies

----------------------------------------------------------------------------
(* C2 *)

\* C2: when the login POST fails (an error status or no response), login sets
\* authenticated to false, navigates nowhere, issues no check request and
\* returns false.
C2_LoginPostFails ==
    (AnsweredTo("login", config.login.endpoint) /\ ~LastOk)
        => /\ authenticated = "false"
           /\ last.nav = NoNav
           /\ last.sent = <<>>
           /\ last.ret = "false"

C2_Witness ==
    /\ AnsweredTo("login", config.login.endpoint)
    /\ last.status = Unauthorized
    /\ authenticated = "false"
    /\ user \in Bodies
    /\ last.ret = "false"

----------------------------------------------------------------------------
(* C3 *)

\* C3: whenever login returns true, authenticated is true at that moment.
C3_LoginTrueMeansAuthenticated ==
    (Returned("login") /\ last.ret = "true") => authenticated = "true"

----------------------------------------------------------------------------
(* C4 *)

\* C4: check, login and logout never throw: whatever their requests come back
\* with, each ends with a boolean result.
C4_NoThrow ==
    (last.op \in {"check", "login", "logout"} /\ last.ret # "none")
        => last.ret \in {"true", "false"}

----------------------------------------------------------------------------
(* C5 *)

\* The query pieces the urls of the model carry.
IsPathPiece(p) == p # "?page=1"

\* The request's target is the check endpoint: its path, the query aside, is
\* the check endpoint's.
TargetsCheck(request) ==
    SelectSeq(request, IsPathPiece) = Resolve(config.check.endpoint)

\* The last step answered, with a 401, a Request Wrapper request that kept the
\* default response-error hook.
Wrapper401 ==
    last.op = "useSanctumFetch" /\ last.hook = "default" /\ last.status = Unauthorized

\* C5: a 401 to a Request Wrapper request (one that keeps the default hook)
\* whose target is not the check endpoint sets authenticated to false and user to null and navigates to the
\* configured logout redirect target.
C5_Reset401 ==
    (Wrapper401 /\ ~TargetsCheck(last.request))
        => /\ authenticated = "false"
           /\ user = Null
           /\ last.nav # NoNav
           /\ Truthy(config.logout.redirectsTo) => last.nav = config.logout.redirectsTo

----------------------------------------------------------------------------
(* C6 *)

\* C6: a 401 to a Request Wrapper request that targets the check endpoint
\* navigates nowhere and leaves authenticated and user as they were.
C6_Check401NoEffect ==
    [][(Wrapper401' /\ TargetsCheck(last'.request))
        => /\ last'.nav = NoNav
           /\ authenticated' = authenticated
           /\ user' = user]_vars

----------------------------------------------------------------------------
(* C7 *)

\* C7: when the logout POST succeeds, logout sets authenticated to false,
\* returns true, and navigates to redirectTo if one was passed, otherwise to
\* the configured default, and nowhere if there is neither.
C7_LogoutSuccess ==
    (AnsweredTo("logout", config.logout.endpoint) /\ LastOk)
        => /\ authenticated = "false"
           /\ last.ret = "true"
           /\ last.nav = IF last.redirectTo # Undefined THEN last.redirectTo
                         ELSE IF config.logout.redirectsTo # Undefined
                              THEN config.logout.redirectsTo
                              ELSE NoNav

----------------------------------------------------------------------------
(* C8 *)

\* C8 as stated: when the logout POST fails, logout returns false, navigates
\* nowhere and leaves authenticated, user and csrfToken as they were.
C8_LogoutFailsNoChange ==
    [][(AnsweredTo("logout", config.logout.endpoint)' /\ ~LastOk')
        => /\ last'.ret = "false"
           /\ last'.nav = NoNav
           /\ authenticated' = authenticated
           /\ user' = user
           /\ csrfToken' = csrfToken]_vars

\* C8 amended: when the logout POST fails, logout returns false, navigates
\* nowhere and leaves authenticated and user as they were; csrfToken keeps its
\* value when no response came back, and after an error response it is what
\* the response hook derives (on the client, the XSRF-TOKEN cookie).
C8_LogoutFailsKeepsSession ==
    [][(AnsweredTo("logout", config.logout.endpoint)' /\ ~LastOk')
        => /\ last'.ret = "false"
           /\ last'.nav = NoNav
           /\ authenticated' = authenticated
           /\ user' = user
           /\ last'.status = 0 => csrfToken' = csrfToken
           /\ (last'.status # 0 /\ ~process.server) => csrfToken' = cookie']_vars

C8_Witness ==
    /\ AnsweredTo("logout", config.logout.endpoint)
    /\ last.status = Unauthorized
    /\ last.ret = "false"
    /\ authenticated = "true"
    /\ user \in Bodies

----------------------------------------------------------------------------
(* C9 *)

\* C9: check never throws; on a successful response it stores the body in
\* user, sets authenticated to true and returns true; on any failure it sets
\* authenticated to false and returns false; either way what it returns is
\* authenticated as it then stands.
C9_Check ==
    Returned("check")
        => /\ last.ret \in {"true", "false"}
           /\ LastOk => (user = last.body /\ authenticated = "true" /\ last.ret = "true")
           /\ ~LastOk => (authenticated = "false" /\ last.ret = "false")
           /\ last.ret = authenticated

C9_Witness ==
    /\ Returned("check")
    /\ last.status = Unauthorized
    /\ last.ret = "false"
    /\ authenticated = "false"
    /\ fetched \in Bodies

----------------------------------------------------------------------------
(* C10 *)

\* C10: whenever authenticated is true, user is the body of the most recent
\* successful check response; and authenticated becomes true only in a step
\* in which a check request (check's own or the one inside login) succeeds.
C10_AuthenticatedUser ==
    /\ [](authenticated = "true" => user = fetched)
    /\ [][(authenticated' = "true" /\ authenticated # "true")
            => /\ last'.op \in {"check", "login"}
               /\ last'.request = Resolve(config.check.endpoint)
               /\ LastOk']_vars

C10_Witness ==
    /\ authenticated = "true"
    /\ user = fetched
    /\ user \in Bodies
    /\ last.op = "useSanctumFetch"
    /\ last.status = 500


----------------------------------------------------------------------------
(* C11 *)

\* C11: every transition of authenticated to false clears user, so in every
\* reachable state authenticated = false implies user = null.
C11_FalseMeansNoUser == authenticated = "false" => user = Null

----------------------------------------------------------------------------
(* C12 *)

\* C12: when refreshCsrfToken completes, on the server as on the client,
\* csrfToken is the XSRF-TOKEN cookie the CSRF endpoint's response has set,
\* and that value is what refreshCsrfToken returns.
C12_RefreshStoresResponseToken ==
    (AnsweredRefresh /\ LastOk /\ last.setCookie # Undefined)
        => /\ csrfToken = last.setCookie
           /\ last.op = "refreshCsrfToken" => last.ret = last.setCookie

----------------------------------------------------------------------------
(* C13 *)

\* C13: once a response has set the XSRF-TOKEN cookie to t, every request
\* issued from then on by useSanctumFetch, check, login's POST and logout
\* carries X-XSRF-TOKEN t, until a later response sets another value.
C13_RequestsCarrySetToken ==
    (SentWithToken /\ setToken # Undefined) => last.xsrf = setToken

----------------------------------------------------------------------------
(* C14 *)

----------------------------------------------------------------------------
(* C15 *)

----------------------------------------------------------------------------
(* C16 *)

\* C16: csrfToken changes only in a step that answers a request with a
\* response setting the XSRF-TOKEN cookie, or in a step of refreshCsrfToken;
\* a response without that Set-Cookie leaves it as it was, on the server as
\* on the client.
C16_TokenChangesOnlyOnSetCookie ==
    [][csrfToken' # csrfToken
        => \/ AnsweredByResponse' /\ last'.setCookie # Undefined
           \/ AnsweredRefresh']_vars

----------------------------------------------------------------------------
(* C17 *)

\* C17: the options useSanctumFetch hands to useFetch are the caller's merged
\* over the defaults: a key the caller supplies has the caller's value, any
\* other key its default; the headers are merged name by name, so the default
\* cookie and X-XSRF-TOKEN headers stay when the caller supplies other
\* headers; and the response-error hook is the default interceptor unless the
\* caller supplies one.
C17_OptionsMerged ==
    (last.op = "useSanctumFetch" /\ last.sent # <<>>)
        => LET options == last.options
               params == last.params
               given == Supplied(options)
               own == IF "headers" \in given THEN options.headers ELSE <<>>
           IN  /\ DOMAIN params = given \cup DOMAIN defaults
               /\ \A k \in DOMAIN params \ {"headers"} :
                    params[k] = IF k \in given THEN options[k] ELSE defaults[k]
               /\ DOMAIN params.headers = DOMAIN own \cup DOMAIN defaults.headers
               /\ \A h \in DOMAIN params.headers :
                    params.headers[h] = IF h \in DOMAIN own THEN own[h]
                                        ELSE defaults.headers[h]
               /\ params.onResponseError = "default" <=> "onResponseError" \notin given

C17_Witness ==
    /\ last.op = "useSanctumFetch"
    /\ last.sent # <<>>
    /\ process.server
    /\ "headers" \in DOMAIN last.options
    /\ DOMAIN last.options.headers = {"Authorization"}
    /\ last.options.credentials = "omit"
    /\ DOMAIN last.params.headers = {"Authorization", "X-XSRF-TOKEN", "cookie"}
    /\ last.params.headers["Authorization"] = "caller"
    /\ last.params.headers["X-XSRF-TOKEN"] = "t1"
    /\ last.params.headers["cookie"] = "t1"
    /\ last.params.onResponseError = "default"

----------------------------------------------------------------------------
(* C18 *)

\* C18: once logout has succeeded, or a 401 has been intercepted,
\* authenticated stays false until a check issued after that moment
\* succeeds: the answer to a check request that was in flight at that moment
\* does not set authenticated to true.
C18_StaleCheckCannotAuthenticate == last.stale => authenticated # "true"

----------------------------------------------------------------------------
(* C19 *)

\* C19: an error response to a useSanctumFetch request with a status other
\* than 401 leaves authenticated and user as they were and navigates nowhere.
C19_OtherErrorsNoEffect ==
    [][(/\ last'.op = "useSanctumFetch"
        /\ AnsweredByResponse'
        /\ last'.status >= 400
        /\ last'.status # Unauthorized)
        => /\ authenticated' = authenticated
           /\ user' = user
           /\ last'.nav = NoNav]_vars

C19_Witness ==
    /\ last.op = "useSanctumFetch"
    /\ last.hook = "default"
    /\ last.status = 500
    /\ last.nav = NoNav
    /\ authenticated = "true"
    /\ user \in Bodies


====
